---- MODULE Spec2Model ----
(***************************************************************************)
(* Monte-Carlo tree search over kernel optimisations                       *)
(* (tinygrad/engine/mcts.py): MCTSNode, expand_node and mcts_search.       *)
(*                                                                         *)
(* A kernel is represented by its applied_opts, a sequence of option       *)
(* numbers; apply_opt appends one option.  Timings are whole microseconds, *)
(* so node.t (the sum of -(tm*1e6)) is an integer.  A node is an index     *)
(* into the sequence nodes (object identity); parent 0 is None.            *)
(* The action generator, the compiler and the timer are external: the      *)
(* number of actions, the compile outcome and the measured timing are      *)
(* inputs of the steps that call them.                                     *)
(***************************************************************************)
EXTENDS Integers, Sequences, FiniteSets

\* ------------------------------------------------------------------ bounds
MaxAmt == 4
MaxActs == 2
MaxTm == 2
MaxCalls == 2
MaxCacheAmt == 2

\* --------------------------------------------------------------- constants
\* math.inf, as used for best_tm and for the score of an unvisited child
inf == 2147483647
\* resolution of the fixed-point representation of the float UCB1 score
Scale == 10000
\* Python's None (children not expanded, no cache entry, nothing returned);
\* 0 is neither a node index nor an option number
None == <<0>>

VARIABLES
  IGNORE_BEAM_CACHE, \* getenv("IGNORE_BEAM_CACHE")
  CACHELEVEL,        \* helpers.CACHELEVEL
  cache,             \* the disk cache table "mcts_search": key -> applied_opts
  pc,                \* position in mcts_search
  calls,             \* number of mcts_search calls made so far
  lin, amt,          \* arguments of the current call
  nodes,             \* the MCTSNode objects, in creation order; root is 1
  node,              \* the local variable node (an index into nodes)
  i,                 \* number of iterations of the for loop started
  best, best_tm,     \* the best-result accumulator
  ret,               \* value returned by the last call
  \* history of the current call, used only to state properties
  gen,               \* per node: number of actions the generator returned (-1: not expanded)
  ro,                \* per node: 0 not rolled out, -1 compile failed, else measured timing
  snap,              \* nodes as they were when the current iteration started
  from,              \* node the last descent step left (0: none)
  order,             \* the nodes submitted to the compiler, in that order
  broke,             \* the loop was left by break
  hit,               \* the last call returned from the cache
  wlin               \* per cache key: the input kernel of the search that wrote the entry

vars == <<IGNORE_BEAM_CACHE, CACHELEVEL, cache, pc, calls, lin, amt, nodes, node, i,
          best, best_tm, ret, gen, ro, snap, from, order, broke, hit, wlin>>

run == <<nodes, node, i, best, best_tm, gen, ro, snap, from, order, broke>>
env == <<IGNORE_BEAM_CACHE, CACHELEVEL>>

\* ------------------------------------------------------------------ inputs
Amts == 0..MaxAmt
ActCounts == 0..MaxActs
Timings == 1..MaxTm
\* input kernels: all share one ast and differ in the options already applied
Lins == {<<>>, <<1>>}

\* amt of the calls that share one disk cache
CacheAmts == 0..MaxCacheAmt

\* mcts.py:22 -- ast, device and suffix are the same for all calls here
Key(a) == [ast |-> "ast", amt |-> a, device |-> "CLANG", suffix |-> ""]

\* --------------------------------------------------------------- MCTSNode
\* variant: a new node counts as visited once
MCTSNode_visited(kernel, parent) ==
  [kernel |-> kernel, t |-> 0, n |-> 1, parent |-> parent, children |-> None]

MCTSNode(kernel, parent) ==
  [kernel |-> kernel, t |-> 0, n |-> 0, parent |-> parent, children |-> None]

\* variant: the identity action is not excluded, so there is one more child
expand_node_include_0(ns, id, k) ==
  LET base == Len(ns)
      kids == [a \in 1..(k + 1) |-> MCTSNode(Append(ns[id].kernel, a), id)]
  IN  [ns EXCEPT ![id].children = [a \in 1..(k + 1) |-> base + a]] \o kids

\* variant: every new node is parented to the root
expand_node_root_parent(ns, id, k) ==
  LET base == Len(ns)
      kids == [a \in 1..k |-> MCTSNode(Append(ns[id].kernel, a), 1)]
  IN  [ns EXCEPT ![id].children = [a \in 1..k |-> base + a]] \o kids

\* expand_node: one child per action, each wrapping the kernel with that
\* action applied, parented to id
expand_node(ns, id, k) ==
  LET base == Len(ns)
      kids == [a \in 1..k |-> MCTSNode(Append(ns[id].kernel, a), id)]
  IN  [ns EXCEPT ![id].children = [a \in 1..k |-> base + a]] \o kids


\* -------------------------------------------------------------- selection
\* floor(ln(n) * 10^8) for the visit counts a run can reach
LnTable == <<0, 69314718, 109861228, 138629436, 160943791, 179175946,
             194591014, 207944154, 219722457, 230258509, 239789527, 248490664>>

\* math.log raises ValueError for an argument of 0
log_defined(n) == n >= 1

RECURSIVE bisect(_, _, _)
bisect(x, lo, hi) ==
  IF hi - lo <= 1 THEN lo
  ELSE LET mid == (lo + hi) \div 2
       IN  IF mid * mid <= x THEN bisect(x, mid, hi) ELSE bisect(x, lo, mid)

\* floor(sqrt(x)), 0 <= x < 2^30
isqrt(x) == bisect(x, 0, 32768)

\* C*math.sqrt(math.log(pn)/cn) with C = sqrt(2), times Scale
explore(pn, cn) == isqrt((2 * LnTable[pn]) \div cn)

\* variant: an unvisited child scores lowest instead of highest
ucb_score_unvisited_last(child, parent) ==
  IF child.n = 0 THEN -inf
  ELSE ((child.t * Scale) \div child.n) + explore(parent.n, child.n)

\* the sort key of one child (mcts.py:42), times Scale when finite
ucb_score(child, parent) ==
  IF child.n = 0 THEN inf
  ELSE ((child.t * Scale) \div child.n) + explore(parent.n, child.n)

\* variant: x goes before the elements whose score equals its own
insert_desc_before(srt, x) ==
  LET p == Cardinality({j \in 1..Len(srt) : srt[j].score > x.score})
  IN  SubSeq(srt, 1, p) \o <<x>> \o SubSeq(srt, p + 1, Len(srt))

\* one step of a stable sort in descending order: x goes behind every element
\* whose score is at least its own
insert_desc(srt, x) ==
  LET p == Cardinality({j \in 1..Len(srt) : srt[j].score >= x.score})
  IN  SubSeq(srt, 1, p) \o <<x>> \o SubSeq(srt, p + 1, Len(srt))

\* sorted(..., key=lambda x: x[0], reverse=True): stable, equal scores keep
\* their order
RECURSIVE sorted_desc(_)
sorted_desc(s) ==
  IF s = <<>> THEN <<>>
  ELSE insert_desc(sorted_desc(SubSeq(s, 1, Len(s) - 1)), s[Len(s)])

\* the list ucb of mcts.py:42-43 for node id
ucb(ns, id) ==
  sorted_desc([j \in 1..Len(ns[id].children) |->
                 [score |-> ucb_score(ns[ns[id].children[j]], ns[id]),
                  child |-> ns[id].children[j]]])

\* evaluating the scores raises when a visited child has a parent with n = 0
ucb_raises(ns, id) ==
  \E j \in 1..Len(ns[id].children) :
     ns[ns[id].children[j]].n # 0 /\ ~log_defined(ns[id].n)

\* ---------------------------------------------------------------- rollout
\* variant: nothing is dropped
remove_keep(children, x) == children

\* variant: drops the last element whatever x is
remove_last(children, x) == SubSeq(children, 1, Len(children) - 1)

\* list.remove(x): drops the first occurrence of x
remove(children, x) ==
  LET p == CHOOSE j \in 1..Len(children) :
              children[j] = x /\ \A m \in 1..(j - 1) : children[m] # x
  IN  SubSeq(children, 1, p - 1) \o SubSeq(children, p + 1, Len(children))

in_list(children, x) == \E j \in 1..Len(children) : children[j] = x

\* variant: the comparison is the wrong way round
new_best_reversed(nd, tm, b, btm) ==
  IF tm > btm THEN [best |-> nd.kernel, best_tm |-> tm]
  ELSE [best |-> b, best_tm |-> btm]

\* variant: an equal timing also replaces the best
new_best_not_strict(nd, tm, b, btm) ==
  IF tm <= btm THEN [best |-> nd.kernel, best_tm |-> tm]
  ELSE [best |-> b, best_tm |-> btm]

\* variant: the latest timing always replaces the best
new_best_latest(nd, tm, b, btm) == [best |-> nd.kernel, best_tm |-> tm]

\* mcts.py:64
new_best(nd, tm, b, btm) ==
  IF tm < btm THEN [best |-> nd.kernel, best_tm |-> tm]
  ELSE [best |-> b, best_tm |-> btm]

\* variant: only the rolled-out node is credited
backprop_node_only(ns, bnode, tm) ==
  IF bnode = 0 THEN ns
  ELSE [ns EXCEPT ![bnode].t = @ + (-tm), ![bnode].n = @ + 1]

\* variant: the timing is added as it is
RECURSIVE backprop_positive(_, _, _)
backprop_positive(ns, bnode, tm) ==
  IF bnode = 0 THEN ns
  ELSE backprop_positive([ns EXCEPT ![bnode].t = @ + tm, ![bnode].n = @ + 1],
                         ns[bnode].parent, tm)

\* variant: the walk stops below the root
RECURSIVE backprop_below_root(_, _, _)
backprop_below_root(ns, bnode, tm) ==
  IF bnode = 0 \/ ns[bnode].parent = 0 THEN ns
  ELSE backprop_below_root([ns EXCEPT ![bnode].t = @ + (-tm), ![bnode].n = @ + 1],
                           ns[bnode].parent, tm)

\* mcts.py:67-71: walk from bnode to the root, crediting every node
RECURSIVE backprop(_, _, _)
backprop(ns, bnode, tm) ==
  IF bnode = 0 THEN ns
  ELSE backprop([ns EXCEPT ![bnode].t = @ + (-tm), ![bnode].n = @ + 1],
                ns[bnode].parent, tm)

\* ------------------------------------------------------------------ cache
\* the table "mcts_search" of the disk cache is a function from keys to values
diskcache_get(c, key) == IF key \in DOMAIN c THEN c[key] ELSE None

diskcache_put(c, key, val) ==
  [k \in DOMAIN c \cup {key} |-> IF k = key THEN val ELSE c[k]]

\* mcts.py:23, the part of the condition before the lookup
cache_enabled == IGNORE_BEAM_CACHE = 0 /\ CACHELEVEL >= 1

\* Kernel.apply_opt accepts an option number and raises for anything else
can_apply(o) == o >= 1

\* mcts.py:25: every apply_opt of the replay succeeds
replayable(l, val) ==
  \A j \in (Len(l) + 1)..Len(val) : can_apply(val[j])

\* variant: every cached option is applied to the copy
replay_whole(l, val) == l \o val

\* mcts.py:24-26: copy lin and apply the cached options past those lin has
replay(l, val) == l \o SubSeq(val, Len(l) + 1, Len(val))

\* ------------------------------------------------------------------- Init
\* no call has been made
Idle ==
  /\ pc = "idle"
  /\ calls = 0
  /\ lin = <<>>
  /\ amt = 0
  /\ nodes = <<>>
  /\ node = 0
  /\ i = 0
  /\ best = <<>>
  /\ best_tm = inf
  /\ ret = None
  /\ gen = <<>>
  /\ ro = <<>>
  /\ snap = <<>>
  /\ from = 0
  /\ order = <<>>
  /\ broke = FALSE
  /\ hit = FALSE

Fresh ==
  /\ cache = <<>>
  /\ wlin = <<>>
  /\ Idle

\* a fresh process with the default environment and an empty disk cache
Init ==
  /\ IGNORE_BEAM_CACHE = 0
  /\ CACHELEVEL = 2
  /\ Fresh

\* the same with any setting of the two cache switches
InitCache ==
  /\ IGNORE_BEAM_CACHE \in {0, 1}
  /\ CACHELEVEL \in {0, 1, 2}
  /\ Fresh

\* cache values that are not sequences of options
StaleVals == {<<-1>>, <<1, -1>>}

\* a fresh process with the default environment and a disk cache left by
\* earlier processes that holds one such value
InitStale ==
  /\ IGNORE_BEAM_CACHE = 0
  /\ CACHELEVEL = 2
  /\ \E a \in CacheAmts, v \in StaleVals : cache = [k \in {Key(a)} |-> v]
  /\ wlin = <<>>
  /\ Idle

\* ---------------------------------------------------------------- actions
\* mcts.py:22-26: the key is cached; replay and return
CacheHit(l, a) ==
  /\ pc = "idle"
  /\ calls < MaxCalls
  /\ cache_enabled /\ diskcache_get(cache, Key(a)) # None
  /\ lin' = l /\ amt' = a
  /\ calls' = calls + 1
  /\ IF replayable(l, diskcache_get(cache, Key(a)))
       THEN ret' = replay(l, diskcache_get(cache, Key(a))) /\ pc' = pc
       ELSE ret' = None /\ pc' = "raised"
  /\ nodes' = <<>> /\ gen' = <<>> /\ ro' = <<>> /\ snap' = <<>>
  /\ node' = 0 /\ i' = 0 /\ from' = 0 /\ order' = <<>> /\ broke' = FALSE
  /\ best' = <<>> /\ best_tm' = inf
  /\ hit' = TRUE
  /\ UNCHANGED <<cache, wlin, env>>

\* mcts.py:22-35: no usable cache entry; build the root
start_search(l, a) ==
  /\ pc = "idle"
  /\ ~(cache_enabled /\ diskcache_get(cache, Key(a)) # None)
  /\ lin' = l /\ amt' = a
  /\ calls' = calls + 1
  /\ ret' = None
  /\ nodes' = <<MCTSNode(l, 0)>>
  /\ gen' = <<-1>> /\ ro' = <<0>> /\ snap' = <<>>
  /\ node' = 0 /\ i' = 0 /\ from' = 0 /\ order' = <<>> /\ broke' = FALSE
  /\ best' = l /\ best_tm' = inf
  /\ hit' = FALSE
  /\ pc' = "for"
  /\ UNCHANGED <<cache, wlin, env>>

\* the one call of a process that searches once
Search(l, a) == calls = 0 /\ start_search(l, a)

\* a call, of several sharing the disk cache, that finds no usable entry
CacheMiss(l, a) == calls < MaxCalls /\ start_search(l, a)

\* variant: the loop runs one iteration more than the budget
in_range_inclusive(j, a) == j <= a

\* mcts.py:36: range(amt) still has an element after j iterations
in_range(j, a) == j < a

\* mcts.py:36-38: next iteration starts at the root
Iterate ==
  /\ pc = "for"
  /\ in_range(i, amt)
  /\ i' = i + 1
  /\ node' = 1
  /\ snap' = nodes
  /\ from' = 0
  /\ pc' = "while"
  /\ UNCHANGED <<cache, wlin, env, calls, lin, amt, nodes, best, best_tm, ret, gen, ro, order, broke, hit>>

\* mcts.py:36: range(amt) is exhausted
Exhausted ==
  /\ pc = "for"
  /\ ~in_range(i, amt)
  /\ pc' = "end"
  /\ UNCHANGED <<cache, wlin, env, calls, lin, amt, ret, run, hit>>

\* mcts.py:39-44: move to the child with the best score
Descend ==
  /\ pc = "while"
  /\ nodes[node].children # None
  /\ Len(nodes[node].children) # 0
  /\ IF ucb_raises(nodes, node)
       THEN pc' = "raised" /\ UNCHANGED <<node, from>>
       ELSE node' = ucb(nodes, node)[1].child /\ from' = node /\ pc' = "while"
  /\ UNCHANGED <<cache, wlin, env, calls, lin, amt, nodes, i, best, best_tm, ret,
                 gen, ro, snap, order, broke, hit>>

\* variant: the loop goes on with the next iteration
Break_continue ==
  /\ pc = "while"
  /\ nodes[node].children # None
  /\ Len(nodes[node].children) = 0
  /\ broke' = TRUE
  /\ pc' = "for"
  /\ UNCHANGED <<cache, wlin, env, calls, lin, amt, nodes, node, i, best, best_tm, ret,
                 gen, ro, snap, from, order, hit>>

\* mcts.py:40 and 47: the descent ended on an expanded node without children
Break ==
  /\ pc = "while"
  /\ nodes[node].children # None
  /\ Len(nodes[node].children) = 0
  /\ broke' = TRUE
  /\ pc' = "end"
  /\ UNCHANGED <<cache, wlin, env, calls, lin, amt, nodes, node, i, best, best_tm, ret,
                 gen, ro, snap, from, order, hit>>

\* variant: after the expansion the first new child is the node to compile
Expand_to_child(k) ==
  /\ pc = "while"
  /\ nodes[node].children = None
  /\ nodes' = expand_node(nodes, node, k)
  /\ gen' = [j \in 1..Len(nodes') |->
               IF j = node THEN k ELSE IF j <= Len(gen) THEN gen[j] ELSE -1]
  /\ ro' = [j \in 1..Len(nodes') |-> IF j <= Len(ro) THEN ro[j] ELSE 0]
  /\ node' = IF Len(nodes'[node].children) > 0 THEN nodes'[node].children[1] ELSE node
  /\ pc' = "rollout"
  /\ UNCHANGED <<cache, wlin, env, calls, lin, amt, i, best, best_tm, ret,
                 snap, from, order, broke, hit>>

\* mcts.py:50: the descent ended on an unexpanded node; expand it
Expand(k) ==
  /\ pc = "while"
  /\ nodes[node].children = None
  /\ nodes' = expand_node(nodes, node, k)
  /\ gen' = [j \in 1..Len(nodes') |->
               IF j = node THEN k ELSE IF j <= Len(gen) THEN gen[j] ELSE -1]
  /\ ro' = [j \in 1..Len(nodes') |-> IF j <= Len(ro) THEN ro[j] ELSE 0]
  /\ pc' = "rollout"
  /\ UNCHANGED <<cache, wlin, env, calls, lin, amt, node, i, best, best_tm, ret,
                 snap, from, order, broke, hit>>

\* variant: a failed compile is still counted as a visit along the path
CompileFail_counted ==
  /\ pc = "rollout"
  /\ ro' = [ro EXCEPT ![node] = -1]
  /\ order' = Append(order, node)
  /\ IF nodes[node].parent = 0
       THEN pc' = "for" /\ nodes' = backprop(nodes, node, 0)
       ELSE LET par == nodes[node].parent
            IN  IF nodes[par].children = None \/ ~in_list(nodes[par].children, node)
                  THEN pc' = "raised" /\ UNCHANGED nodes
                  ELSE /\ nodes' = backprop([nodes EXCEPT ![par].children = remove(@, node)],
                                            node, 0)
                       /\ pc' = "for"
  /\ UNCHANGED <<cache, wlin, env, calls, lin, amt, node, i, best, best_tm, ret,
                 gen, snap, from, broke, hit>>

\* variant: a failed compile of the root ends the loop
CompileFail_root_ends ==
  /\ pc = "rollout"
  /\ ro' = [ro EXCEPT ![node] = -1]
  /\ order' = Append(order, node)
  /\ IF nodes[node].parent = 0
       THEN pc' = "end" /\ UNCHANGED nodes
       ELSE LET par == nodes[node].parent
            IN  IF nodes[par].children = None \/ ~in_list(nodes[par].children, node)
                  THEN pc' = "raised" /\ UNCHANGED nodes
                  ELSE /\ nodes' = [nodes EXCEPT ![par].children = remove(@, node)]
                       /\ pc' = "for"
  /\ UNCHANGED <<cache, wlin, env, calls, lin, amt, node, i, best, best_tm, ret,
                 gen, snap, from, broke, hit>>

\* mcts.py:53-58: the compile failed
CompileFail ==
  /\ pc = "rollout"
  /\ ro' = [ro EXCEPT ![node] = -1]
  /\ order' = Append(order, node)
  /\ IF nodes[node].parent = 0
       THEN pc' = "for" /\ UNCHANGED nodes
       ELSE LET par == nodes[node].parent
            IN  IF nodes[par].children = None \/ ~in_list(nodes[par].children, node)
                  THEN pc' = "raised" /\ UNCHANGED nodes
                  ELSE /\ nodes' = [nodes EXCEPT ![par].children = remove(@, node)]
                       /\ pc' = "for"
  /\ UNCHANGED <<cache, wlin, env, calls, lin, amt, node, i, best, best_tm, ret,
                 gen, snap, from, broke, hit>>

\* mcts.py:60-71: the compile succeeded; time, update the best, backpropagate
Timed(tm) ==
  /\ pc = "rollout"
  /\ ro' = [ro EXCEPT ![node] = tm]
  /\ order' = Append(order, node)
  /\ best' = new_best(nodes[node], tm, best, best_tm).best
  /\ best_tm' = new_best(nodes[node], tm, best, best_tm).best_tm
  /\ nodes' = backprop(nodes, node, tm)
  /\ pc' = "for"
  /\ UNCHANGED <<cache, wlin, env, calls, lin, amt, node, i, ret, gen, snap, from, broke, hit>>

\* mcts.py:73-75: store the result and return it; the tree is dropped
Finish ==
  /\ pc = "end"
  /\ IF CACHELEVEL >= 1
       THEN /\ cache' = diskcache_put(cache, Key(amt), best)
            /\ wlin' = diskcache_put(wlin, Key(amt), lin)
       ELSE UNCHANGED <<cache, wlin>>
  /\ ret' = best
  /\ nodes' = <<>> /\ gen' = <<>> /\ ro' = <<>> /\ snap' = <<>>
  /\ node' = 0 /\ from' = 0 /\ i' = 0 /\ order' = <<>> /\ broke' = FALSE
  /\ best' = <<>> /\ best_tm' = inf
  /\ pc' = "idle"
  /\ UNCHANGED <<env, calls, lin, amt, hit>>

\* one search in a fresh process
Next ==
  \/ \E l \in Lins, a \in Amts : Search(l, a)
  \/ Iterate
  \/ Exhausted
  \/ Descend
  \/ Break
  \/ \E k \in ActCounts : Expand(k)
  \/ CompileFail
  \/ \E tm \in Timings : Timed(tm)
  \/ Finish

Spec == Init /\ [][Next]_vars

\* one search in which every timing is one microsecond
NextLive ==
  \/ \E l \in Lins, a \in Amts : Search(l, a)
  \/ Iterate
  \/ Exhausted
  \/ Descend
  \/ Break
  \/ \E k \in ActCounts : Expand(k)
  \/ CompileFail
  \/ Timed(1)
  \/ Finish

\* the steps other than those of the descent
Progress ==
  \/ \E l \in Lins, a \in Amts : Search(l, a)
  \/ Iterate
  \/ Exhausted
  \/ Break
  \/ \E k \in ActCounts : Expand(k)
  \/ CompileFail
  \/ Timed(1)
  \/ Finish

\* mcts.py:39-44: the descent moves on to one of the children
Descending ==
  /\ pc = "while"
  /\ nodes[node].children # None
  /\ \E c \in 1..Len(nodes) : in_list(nodes[node].children, c) /\ node' = c
  /\ from' = node
  /\ pc' = "while"
  /\ UNCHANGED <<cache, wlin, env, calls, lin, amt, nodes, i, best, best_tm, ret,
                 gen, ro, snap, order, broke, hit>>

\* that search in a process that keeps running: the interpreter takes the next
\* step, the call is made, and every call to a collaborator returns
SpecLive == Init /\ [][NextLive]_vars /\ WF_vars(Progress) /\ WF_vars(Descending)

\* several calls with small budgets that share the disk cache
NextCache ==
  \/ \E l \in Lins, a \in CacheAmts : CacheHit(l, a)
  \/ \E l \in Lins, a \in CacheAmts : CacheMiss(l, a)
  \/ Iterate
  \/ Exhausted
  \/ Descend
  \/ Break
  \/ \E k \in ActCounts : Expand(k)
  \/ CompileFail
  \/ \E tm \in Timings : Timed(tm)
  \/ Finish

SpecCache == InitCache /\ [][NextCache]_vars

\* the same calls on a disk cache that holds a value that cannot be replayed
SpecStale == InitStale /\ [][NextCache]_vars

\* the scenario of a budget of 5 with timings of 70, 80 and 100 microseconds
NextScenario ==
  \/ Search(<<>>, 5)
  \/ Iterate
  \/ Exhausted
  \/ Descend
  \/ Break
  \/ \E k \in 0..2 : Expand(k)
  \/ CompileFail
  \/ \E tm \in {70, 80, 100} : Timed(tm)
  \/ Finish

SpecScenario == Init /\ [][NextScenario]_vars

TypeOK ==
  /\ pc \in {"idle", "for", "while", "rollout", "end", "raised"}
  /\ calls \in 0..MaxCalls
  /\ Len(gen) = Len(nodes) /\ Len(ro) = Len(nodes)


\* ------------------------------------------------------------- properties
Kids(id) == IF nodes[id].children = None THEN <<>> ELSE nodes[id].children

\* number of completed (compiled and timed) rollouts on nodes of id's subtree,
\* and the same over the subtrees of the first j children of id
RECURSIVE SubtreeRollouts(_), KidsRollouts(_, _)
SubtreeRollouts(id) ==
  (IF ro[id] > 0 THEN 1 ELSE 0) + KidsRollouts(id, Len(Kids(id)))
KidsRollouts(id, j) ==
  IF j = 0 THEN 0
  ELSE SubtreeRollouts(Kids(id)[j]) + KidsRollouts(id, j - 1)

\* number of completed rollouts of the run
Completed == Cardinality({id \in 1..Len(nodes) : ro[id] > 0})

\* C1 -- visit accounting: while a search runs, the root's n equals the number
\* of completed rollouts of the run, and every node's n (in the tree or pruned
\* from it) equals the number of completed rollouts performed on nodes of its
\* subtree (itself included).
C1_VisitAccounting ==
  pc \in {"for", "while", "rollout", "end"} =>
    /\ nodes[1].n = Completed
    /\ \A id \in 1..Len(nodes) : nodes[id].n = SubtreeRollouts(id)

\* a non-root node that was credited for two rollouts of its subtree, in a run
\* that also pruned a node
C1_Witness ==
  /\ pc = "for"
  /\ \E id \in 2..Len(nodes) : ro[id] > 0 /\ nodes[id].n >= 2
  /\ \E id \in 2..Len(nodes) : ro[id] = -1

\* C2 -- pruning: when the compile of a non-root node failed in the iteration
\* that just ended, the node is no longer among its parent's children and every
\* node has the n and t it had when the iteration started (new nodes have 0).
C2_PruningCorrectness ==
  (pc = "for" /\ i >= 1 /\ ro[node] = -1 /\ nodes[node].parent # 0) =>
    /\ ~in_list(nodes[nodes[node].parent].children, node)
    /\ \A id \in 1..Len(nodes) :
         IF id <= Len(snap)
           THEN nodes[id].n = snap[id].n /\ nodes[id].t = snap[id].t
           ELSE nodes[id].n = 0 /\ nodes[id].t = 0

\* the first of two children was pruned after the root had been credited
C2_Witness ==
  /\ pc = "for" /\ i >= 1 /\ ro[node] = -1 /\ nodes[node].parent # 0
  /\ nodes[1].n >= 1
  /\ gen[nodes[node].parent] = 2
  /\ Len(nodes[nodes[node].parent].children) = 1
  /\ nodes[nodes[node].parent].children[1] # node

\* C3 -- unvisited first: a descent step from a node that has a child with
\* n = 0 moves to a child with n = 0.
C3_UnvisitedFirst ==
  [][(pc = "while" /\ pc' = "while"
      /\ \E j \in 1..Len(Kids(node)) : nodes[Kids(node)[j]].n = 0)
     => nodes[node'].n = 0]_vars

\* the descent has just moved to an unvisited child whose sibling was visited
C3_Witness ==
  /\ pc = "while" /\ from # 0
  /\ nodes[node].n = 0
  /\ \E j \in 1..Len(Kids(from)) : nodes[Kids(from)[j]].n >= 1

\* C4 -- monotonic best: a search starts with best_tm at infinity and no step
\* of its loop raises best_tm.
C4_MonotonicBest ==
  [][/\ (pc = "idle" /\ pc' = "for") => best_tm' = inf
     /\ (pc # "idle" /\ pc' # "idle") => best_tm' <= best_tm]_vars

\* a rollout measured a timing above the best one and left the best alone
C4_Witness ==
  /\ pc = "for" /\ i >= 2
  /\ ro[node] > best_tm


IsPrefix(p, q) == Len(p) <= Len(q) /\ SubSeq(q, 1, Len(p)) = p

Max(a, b) == IF a >= b THEN a ELSE b

\* the step is a call that returned from the cache
HitStep == pc = "idle" /\ pc' = "idle" /\ calls' = calls + 1 /\ hit'

\* C5 as stated -- cache round trip: a call that finds T under its key returns a
\* kernel whose applied transformations equal T, and builds no tree, compiles
\* nothing and times nothing.
C5_Original ==
  [][HitStep =>
       /\ ret' = diskcache_get(cache, Key(amt'))
       /\ nodes' = <<>> /\ ro' = <<>>]_vars

\* C5 as amended -- a call that finds T under its key builds no tree, compiles
\* nothing, times nothing and leaves the cache alone; the kernel it returns
\* extends the input kernel and has max(len(lin), len(T)) transformations, and
\* its transformations equal T whenever the input kernel's are a prefix of T,
\* as they are for the input kernel of the search that wrote the entry.
C5_CacheRoundTrip ==
  [][HitStep =>
       LET T == diskcache_get(cache, Key(amt'))
       IN  /\ nodes' = <<>> /\ ro' = <<>> /\ gen' = <<>>
           /\ cache' = cache
           /\ IsPrefix(lin', ret')
           /\ Len(ret') = Max(Len(lin'), Len(T))
           /\ IsPrefix(lin', T) => ret' = T
           /\ lin' = wlin[Key(amt')] => ret' = T]_vars

\* a call with an input kernel that already has an option applied returned the
\* longer sequence that an earlier search on the same kernel had stored
C5_Witness ==
  /\ pc = "idle" /\ hit
  /\ lin # <<>>
  /\ wlin[Key(amt)] = lin
  /\ ret = cache[Key(amt)]
  /\ Len(ret) > Len(lin)

\* C6 -- terminal search: when the generator returned no action for the root,
\* the search returns the input kernel, whatever the budget and whether or not
\* the root compiled.
C6_TerminalIdempotent ==
  [][(pc = "end" /\ pc' = "idle" /\ gen[1] = 0) => ret' = lin]_vars

\* a search with a budget of at least 3 on a root without actions is about to
\* return after the root was timed
C6_Witness ==
  /\ pc = "end" /\ gen[1] = 0 /\ amt >= 3
  /\ ro[1] > 0
  /\ best = lin

\* C7 as stated -- terminal root with amt = 3: the search ends by the break,
\* returns the original kernel, and the root's n is still 0.
C7_Original ==
  (pc = "end" /\ amt = 3 /\ gen[1] = 0) =>
    /\ broke
    /\ best = lin
    /\ nodes[1].n = 0

\* C7 as amended -- terminal root with amt = 3: the search ends by the break at
\* the start of iteration 2, after one iteration that expanded and compiled the
\* root; it returns the original kernel, and the root's n is 1 when the root
\* compiled (it was rolled out and credited) and 0 when its compile failed.
C7_TerminalRoot ==
  (pc = "end" /\ amt = 3 /\ gen[1] = 0) =>
    /\ broke /\ i = 2
    /\ Len(nodes) = 1
    /\ best = lin
    /\ ro[1] # 0
    /\ nodes[1].n = (IF ro[1] > 0 THEN 1 ELSE 0)

\* the search on a terminal root ended with the root credited for its rollout
C7_Witness ==
  /\ pc = "end" /\ amt = 3 /\ gen[1] = 0
  /\ broke
  /\ nodes[1].n = 1

\* the run had a budget of 5, the root had exactly two actions, and the two
\* children compiled with timings 100 and 80
ScenarioPre ==
  /\ pc = "end" /\ amt = 5
  /\ gen[1] = 2
  /\ ro[2] = 100 /\ ro[3] = 80

\* lowest timing measured in the run
MinTiming ==
  CHOOSE m \in {ro[id] : id \in {j \in 1..Len(ro) : ro[j] > 0}} :
    \A id \in 1..Len(ro) : ro[id] > 0 => m <= ro[id]

\* C8 as stated -- two actions timed 100 and 80 with amt = 5: at the end the
\* best is the 80 microsecond variant and the root's n is 5.
C8_Original ==
  ScenarioPre => (best = <<2>> /\ nodes[1].n = 5)

\* C8 as amended -- two actions timed 100 and 80 with amt = 5: at the end the
\* root's n is the number of completed rollouts of the run, between 2 and 5,
\* and it is 5 exactly when no descent ended on a terminal node and no compile
\* failed; the best timing is the lowest measured, and the best is the
\* 80 microsecond variant exactly when the root was not timed at 80 or less
\* and no later rollout was timed below 80.
C8_TwoActions ==
  ScenarioPre =>
    /\ nodes[1].n = Completed
    /\ Completed \in 2..5
    /\ nodes[1].n = 5 <=> (~broke /\ \A id \in 1..Len(ro) : ro[id] # -1)
    /\ best_tm = MinTiming
    /\ best = <<2>> <=> (/\ ro[1] \notin 1..80
                         /\ \A id \in 4..Len(ro) : ro[id] \notin 1..79)

\* the scenario ended with five rollouts and the 80 microsecond variant as best
C8_Witness ==
  /\ ScenarioPre
  /\ best = <<2>>
  /\ nodes[1].n = 5

\* C9 as stated -- the loop is left early only when the root itself has no
\* legal action.
C9_Original ==
  broke => gen[1] = 0

\* C10 as stated -- the descent never moves onto a node whose children are an
\* expanded empty collection.
C10_Original ==
  (pc = "while" /\ from # 0) => nodes[node].children # <<>>


\* nodes whose rollout compiled and was timed
TimedNodes == {id \in 1..Len(ro) : ro[id] > 0}

\* C11 -- no error on compile failure: the search never raises; whenever a
\* non-root node is about to be compiled its parent's children are expanded and
\* contain it, so the assertion holds and the removal finds the node; and the
\* kernel the search ends with is the input kernel or that of a timed node.
C11_NoRaise ==
  /\ pc # "raised"
  /\ (pc = "rollout" /\ nodes[node].parent # 0) =>
       /\ nodes[nodes[node].parent].children # None
       /\ in_list(nodes[nodes[node].parent].children, node)
  /\ pc = "end" =>
       (best = lin \/ \E id \in TimedNodes : nodes[id].kernel = best)

\* a search ended with a kernel other than its input after a grandchild of the
\* root had failed to compile
C11_Witness ==
  /\ pc = "end"
  /\ best # lin
  /\ \E id \in 2..Len(nodes) :
       ro[id] = -1 /\ nodes[id].parent # 0 /\ nodes[nodes[id].parent].parent # 0

\* position in order of the first node timed at the lowest timing of the run
FirstMin ==
  CHOOSE k \in 1..Len(order) :
    /\ ro[order[k]] = MinTiming
    /\ \A m \in 1..(k - 1) : ro[order[m]] # MinTiming

\* C12 -- best result: a search that misses the cache returns the kernel of the
\* node timed at the lowest timing of the run, the earliest rolled out of them
\* when several share it, and the input kernel when no rollout was timed.
C12_BestResult ==
  [][(pc = "end" /\ pc' = "idle") =>
       ret' = (IF TimedNodes = {} THEN lin ELSE nodes[order[FirstMin]].kernel)]_vars

\* a search is about to return the earlier of two nodes that share the lowest
\* timing, and that node is not the root
C12_Witness ==
  /\ pc = "end"
  /\ TimedNodes # {}
  /\ \E a \in TimedNodes, b \in TimedNodes :
       a # b /\ ro[a] = MinTiming /\ ro[b] = MinTiming
  /\ best = nodes[order[FirstMin]].kernel
  /\ order[FirstMin] # 1


\* C13 as stated -- unreadable cache entry: a call with caching enabled whose
\* cache entry cannot be replayed onto the input kernel goes on as on a cache
\* miss: it builds the root and runs the search.
C13_Original ==
  [][(/\ pc = "idle" /\ calls' = calls + 1
      /\ cache_enabled
      /\ diskcache_get(cache, Key(amt')) # None
      /\ ~replayable(lin', diskcache_get(cache, Key(amt'))))
     => (pc' = "for" /\ nodes' = <<MCTSNode(lin', 0)>>)]_vars

\* the number of nodes that have been expanded
Expansions == Cardinality({id \in 1..Len(gen) : gen[id] >= 0})

\* what the iterations done so far may have used
Budget ==
  /\ i <= amt
  /\ Len(order) <= i
  /\ Expansions <= i
  /\ Cardinality(TimedNodes) <= Len(order)
  /\ pc = "for" => (Len(order) = i /\ Expansions = i)

\* C14 -- budgeted termination: the call made returns; the search runs at most
\* amt iterations, with at most one expansion, one compile call and one timing
\* call per iteration, so at most amt compile calls in all; an iteration whose
\* compile failed counts like any other.
C14_BudgetedTermination ==
  /\ []Budget
  /\ <>(calls = 1 /\ pc = "idle")

\* a search that used its whole budget, one iteration of it on a failed compile
C14_Witness ==
  /\ pc = "end" /\ ~broke
  /\ amt >= 2 /\ i = amt /\ Len(order) = amt
  /\ \E id \in 1..Len(ro) : ro[id] = -1

\* C15 -- abort on terminal anywhere: when the descent stands on a node whose
\* children are expanded and empty, at any depth, the next step leaves the loop
\* and touches neither the tree nor the compiler nor the best result; once the
\* loop is left the only step is the return of the best kernel; so no later
\* iteration runs, whatever is left unexpanded.
C15_AbortOnTerminal ==
  [][/\ (pc = "while" /\ nodes[node].children = <<>>) =>
          /\ pc' = "end" /\ broke'
          /\ UNCHANGED <<nodes, gen, ro, order, best, best_tm, i>>
     /\ pc = "end" => (pc' = "idle" /\ ret' = best)]_vars

\* the loop was left below the root with budget left and with an unexpanded
\* node still among its parent's children
C15_Witness ==
  /\ pc = "end" /\ broke
  /\ node # 1 /\ i < amt
  /\ \E id \in 2..Len(nodes) :
       /\ nodes[id].children = None
       /\ in_list(nodes[nodes[id].parent].children, id)

\* the nodes below the root whose compile failed
Pruned == {id \in 2..Len(ro) : ro[id] = -1}

\* C16 -- pruned nodes stay out: a node whose compile failed is not among its
\* parent's children, was handed to the compiler once only, has no visit and no
\* reward; in the iterations after, the descent neither stands on it nor on a
\* child of it; and the children its expansion created are never expanded,
\* compiled, timed or credited.
C16_PrunedStayOut ==
  \A id \in Pruned :
    /\ ~in_list(nodes[nodes[id].parent].children, id)
    /\ Cardinality({j \in 1..Len(order) : order[j] = id}) = 1
    /\ nodes[id].n = 0 /\ nodes[id].t = 0
    /\ pc \in {"while", "rollout"} => (node # id /\ nodes[node].parent # id)
    /\ \A c \in 1..Len(nodes) :
         nodes[c].parent = id =>
           /\ ro[c] = 0 /\ gen[c] = -1
           /\ nodes[c].n = 0 /\ nodes[c].t = 0
           /\ \A j \in 1..Len(order) : order[j] # c

\* a pruned node that has children, and a rollout timed after it was pruned
C16_Witness ==
  /\ pc = "for"
  /\ \E id \in Pruned :
       /\ gen[id] >= 1
       /\ \E j \in 1..(Len(order) - 1) : order[j] = id /\ ro[order[j + 1]] > 0

\* C17 as stated -- root compile failure: the step in which the root's compile
\* fails leaves every node, its n and t, the set of timed nodes and the best
\* result as they were; the loop then goes on with a next iteration, and that
\* iteration descends from the root into one of its children.
C17_Original ==
  [][/\ (pc = "rollout" /\ node = 1 /\ ro'[1] = -1) =>
          /\ nodes' = nodes
          /\ best' = best /\ best_tm' = best_tm
          /\ TimedNodes' = TimedNodes
          /\ pc' = "for"
     /\ (pc = "for" /\ ro[1] = -1 /\ i = 1) =>
          /\ pc' = "while" /\ node' = 1 /\ i' = 2
     /\ (pc = "while" /\ node = 1 /\ ro[1] = -1 /\ i = 2) =>
          /\ pc' = "while"
          /\ in_list(nodes[1].children, node')]_vars

\* C17 -- root compile failure: the step in which the root's compile fails
\* leaves every node, its n and t, the set of timed nodes and the best result as
\* they were and goes back to the loop; with budget left the next iteration
\* starts at the root, whose children stay expanded, and without budget left the
\* loop ends; where the root has children the descent moves into one of them,
\* and where it has none the next iteration leaves the loop with the tree as it
\* was.
C17_RootCompileFailure ==
  [][/\ (pc = "rollout" /\ node = 1 /\ ro'[1] = -1) =>
          /\ nodes' = nodes
          /\ best' = best /\ best_tm' = best_tm
          /\ TimedNodes' = TimedNodes
          /\ pc' = "for"
     /\ (pc = "for" /\ ro[1] = -1 /\ i = 1 /\ in_range(i, amt)) =>
          /\ pc' = "while" /\ node' = 1 /\ i' = 2
          /\ nodes' = nodes /\ nodes[1].children # None
     /\ (pc = "for" /\ ro[1] = -1 /\ i = 1 /\ ~in_range(i, amt)) =>
          /\ pc' = "end" /\ nodes' = nodes /\ order' = order
     /\ (pc = "while" /\ node = 1 /\ ro[1] = -1 /\ Len(nodes[1].children) > 0) =>
          /\ pc' = "while"
          /\ in_list(nodes[1].children, node')
          /\ nodes' = nodes
     /\ (pc = "while" /\ node = 1 /\ ro[1] = -1 /\ i = 2 /\ gen[1] = 0) =>
          /\ pc' = "end" /\ nodes' = nodes /\ order' = order]_vars

\* the iteration after the root's failed compile has moved into a child
C17_Witness ==
  /\ pc = "while" /\ i = 2
  /\ ro[1] = -1
  /\ from = 1 /\ nodes[node].parent = 1

\* the step times a compiled rollout
TimedStep == pc = "rollout" /\ ro'[node] > 0

\* C18 -- statistics frame: a step that creates the root, selects, expands or
\* prunes leaves the n and t of every node there is as they were and creates
\* nodes with n = 0 and t = 0 only; the step after a failed compile is such a
\* step; the step that times a compiled rollout is the only one that changes n
\* and t, and it always does.
C18_StatisticsFrame ==
  [][/\ (pc # "end" /\ ~TimedStep) =>
          /\ \A j \in 1..Len(nodes) :
               nodes'[j].n = nodes[j].n /\ nodes'[j].t = nodes[j].t
          /\ \A j \in (Len(nodes) + 1)..Len(nodes') :
               nodes'[j].n = 0 /\ nodes'[j].t = 0
     /\ TimedStep =>
          /\ nodes'[node].n = nodes[node].n + 1
          /\ nodes'[node].t # nodes[node].t
          /\ nodes'[1].n = nodes[1].n + 1]_vars

\* a pruning step, after rollouts that were timed, with the counts still there
C18_Witness ==
  /\ pc = "for"
  /\ Len(order) >= 2
  /\ ro[order[Len(order)]] = -1 /\ order[Len(order)] # 1
  /\ nodes[1].n >= 1 /\ nodes[1].t < 0

\* id is x or an ancestor of x
RECURSIVE OnPath(_, _)
OnPath(id, x) ==
  IF x = 0 THEN FALSE
  ELSE IF x = id THEN TRUE
  ELSE OnPath(id, nodes[x].parent)

\* the sum of the timings of the timed nodes among the first j that are id or
\* below it
RECURSIVE SubtreeTime(_, _)
SubtreeTime(id, j) ==
  IF j = 0 THEN 0
  ELSE (IF ro[j] > 0 /\ OnPath(id, j) THEN ro[j] ELSE 0) + SubtreeTime(id, j - 1)

\* C19 -- reward accounting: the step that times a rollout takes the timing, in
\* microseconds, from the t of the rolled-out node and of each of its ancestors
\* up to the root and adds 1 to their n, and changes no other node; and at
\* every moment of a search the t of each node is minus the sum of the timings
\* of the timed rollouts in its subtree.
C19_RewardAccounting ==
  [][/\ TimedStep =>
          \A j \in 1..Len(nodes) :
            IF OnPath(j, node)
              THEN nodes'[j] = [nodes[j] EXCEPT !.t = @ - ro'[node], !.n = @ + 1]
              ELSE nodes'[j] = nodes[j]
     /\ \A j \in 1..Len(nodes) : nodes[j].t = 0 - SubtreeTime(j, Len(nodes))]_vars

\* a node two levels below the root was timed and credited, next to a visited
\* node off its path
C19_Witness ==
  /\ pc = "for"
  /\ Len(order) >= 1
  /\ LET x == order[Len(order)]
     IN  /\ ro[x] > 0
         /\ nodes[x].parent > 1
         /\ nodes[1].n >= 3
         /\ \E y \in 2..Len(nodes) : ~OnPath(y, x) /\ nodes[y].n >= 1

\* the step moves the descent from a node to another
DescendStep == pc = "while" /\ pc' = "while" /\ node' # node

\* C20 -- tie-break by order: the descent moves to the child that has the
\* highest score and, among the children that share it, stands first in the
\* children of the node; the choice depends on nothing else, so the nodes
\* selected are determined by the outcomes of the compiles and the timings.
C20_TieBreakByOrder ==
  [][DescendStep =>
       LET ch == nodes[node].children
           sc(j) == ucb_score(nodes[ch[j]], nodes[node])
       IN  \E p \in 1..Len(ch) :
             /\ node' = ch[p]
             /\ \A q \in 1..Len(ch) : sc(q) <= sc(p)
             /\ \A q \in 1..(p - 1) : sc(q) < sc(p)]_vars

\* the descent has just moved to a child that has a later sibling with the
\* same score
C20_Witness ==
  /\ pc = "while" /\ from # 0
  /\ LET ch == nodes[from].children
     IN  \E p, q \in 1..Len(ch) :
           /\ p < q /\ ch[p] = node
           /\ ucb_score(nodes[ch[q]], nodes[from]) = ucb_score(nodes[node], nodes[from])

\* C21 -- one rollout per node: no node is handed to the compiler twice; the
\* node about to be compiled was unexpanded when the iteration began, has been
\* expanded in this iteration and has not been compiled, and it is the node
\* the compile call is made for, whether the compile fails or not; the
\* expansion is of an unexpanded node, stays on that node and comes before the
\* compile call; and children that are expanded stay expanded.
C21_OneRolloutPerNode ==
  [][/\ \A p, q \in 1..Len(order) : order[p] = order[q] => p = q
     /\ pc = "rollout" =>
          /\ node <= Len(snap) /\ snap[node].children = None
          /\ nodes[node].children # None /\ gen[node] >= 0
          /\ ro[node] = 0
          /\ pc' # "raised" => order' = Append(order, node)
     /\ (pc = "while" /\ pc' = "rollout") =>
          /\ nodes[node].children = None
          /\ node' = node /\ nodes'[node].children # None
          /\ order' = order
     /\ pc # "end" =>
          \A j \in 1..Len(nodes) :
            nodes[j].children # None =>
              (nodes'[j].children # None /\ gen'[j] = gen[j])]_vars

\* a node that got children from its expansion failed to compile, after other
\* nodes had been expanded and compiled
C21_Witness ==
  /\ pc = "for"
  /\ Len(order) >= 3
  /\ LET x == order[Len(order)]
     IN  ro[x] = -1 /\ gen[x] >= 1 /\ Len(nodes[x].children) = gen[x]

\* C22 -- score formula is always defined: each child in the children of a
\* node has an n of at most the n of the node, so for a child with n >= 1 the
\* logarithm is taken of a number that is at least 1 and is not negative, and
\* the divisions are by the n of that child, which is not 0; the descent never
\* stands on a node whose scores raise, and the search never raises.
C22_ScoreDefined ==
  /\ pc # "raised"
  /\ \A id \in 1..Len(nodes) :
       nodes[id].children # None =>
         \A j \in 1..Len(nodes[id].children) :
           LET c == nodes[id].children[j]
           IN  /\ nodes[c].n <= nodes[id].n
               /\ nodes[c].n >= 1 =>
                    /\ log_defined(nodes[id].n)
                    /\ LnTable[nodes[id].n] >= 0
  /\ (pc = "while" /\ nodes[node].children # None) => ~ucb_raises(nodes, node)

\* after the root's compile failed and a child of the root was pruned, the
\* descent has moved from the root to a visited child by its score
C22_Witness ==
  /\ pc = "while" /\ from = 1
  /\ ro[1] = -1
  /\ nodes[node].n >= 1
  /\ \E x \in Pruned : nodes[x].parent = 1

====
